---- MODULE Spec2Model ----
(***************************************************************************)
(* A model of slide_sampler.Slide_Sampler: the level resolver, the         *)
(* coordinate converter, the background-mask bookkeeping, the rejection    *)
(* samplers and the patchframe accumulator.                                *)
(*                                                                         *)
(* Real-valued downsampling factors are kept as integer multiples of       *)
(* 1/Milli, so that 1.0 is 1000, the resolver threshold 0.1 is 100 and the *)
(* consistency tolerance 1e-3 is 1.                                        *)
(***************************************************************************)
EXTENDS Integers, Sequences, FiniteSets

VARIABLES
    wsi,                            \* self.wsi: the opened slide
    desired_downsampling,           \* self.desired_downsampling
    size,                           \* self.size
    level,                          \* self.level
    downsampling,                   \* self.downsampling
    width_available,                \* self.width_available
    height_available,               \* self.height_available
    background_mask,                \* self.background_mask (rows of 0/1)
    background_mask_level,          \* self.background_mask_level
    background_mask_downsampling,   \* self.background_mask_downsampling
    size_at_background_level,       \* self.size_at_background_level
    annotation_mask,                \* self.annotation_mask: the opened mask
    annotation_mask_level,          \* self.annotation_mask_level
    annotation_mask_downsampling,   \* self.annotation_mask_downsampling
    call,                           \* <<operation, argument>>: the call made last
    pc,                             \* where the running call stands
    info,                           \* the info dict of the running sampler call
    frame,                          \* the patchframe being accumulated
    err,                            \* the exception the last call raised
    ret                             \* what a direct call of a helper returned

session == <<wsi, desired_downsampling, size, level, downsampling,
             width_available, height_available>>
background == <<background_mask, background_mask_level,
                background_mask_downsampling, size_at_background_level>>
annotation == <<annotation_mask, annotation_mask_level,
                annotation_mask_downsampling>>
vars == <<session, background, annotation, call, pc, info, frame, err, ret>>

----------------------------------------------------------------------------
(* Units and bounds *)

\* the number of model units in 1.0: eps = 1e-3 is one unit
Milli == 1000

\* None: an absent patch_class, an unset field of info, an unassigned number
None == -1

\* the largest patch size a session is built with
MaxSize == 2

\* the largest number_patches asked of get_basic_patchframe
MaxPatches == 2

\* a background mask is enumerated when its level has at most this many pixels
MaxMaskCells == 4

\* an object attribute that was never assigned; an assigned one is <<value>>
Unset == <<>>

Abs(x) == IF x < 0 THEN -x ELSE x

Min(S) == CHOOSE m \in S : \A n \in S : m <= n

\* int(n / d) for d > 0: Python's int() truncates toward zero
IntTrunc(n, d) == IF n >= 0 THEN n \div d ELSE -((-n) \div d)

----------------------------------------------------------------------------
(* The multi-resolution images *)

Slides ==
    { [file |-> "a.svs", dimensions |-> <<5, 5>>, level_downsamples |-> <<1000, 2000>>],
      [file |-> "b.svs", dimensions |-> <<9, 4>>, level_downsamples |-> <<1000, 2001, 4000>>] }

DesiredDownsamplings == {1000, 2100, 3000}

Thresholds == {0, 100}

\* openslide's level_dimensions: the level-0 extent divided by the factor
LevelDimensions(image, l) ==
    << (image.dimensions[1] * Milli) \div image.level_downsamples[l + 1],
       (image.dimensions[2] * Milli) \div image.level_downsamples[l + 1] >>

Levels(image) == 0 .. (Len(image.level_downsamples) - 1)

----------------------------------------------------------------------------
(* Slide_Sampler.get_level_and_downsampling *)

\* the same, with the threshold test off by one: a minimum equal to the
\* threshold is refused
get_level_and_downsampling_ge(level_downsamples, desired, threshold) ==
    LET diffs == [i \in 1 .. Len(level_downsamples) |->
                     Abs(desired - level_downsamples[i])]
        minimum == Min({diffs[i] : i \in 1 .. Len(level_downsamples)})
        index == Min({i \in 1 .. Len(level_downsamples) : diffs[i] = minimum})
    IN  IF minimum >= threshold
        THEN [raised |-> TRUE, level |-> None, downsampling |-> None]
        ELSE [raised |-> FALSE, level |-> index - 1,
              downsampling |-> level_downsamples[index]]

\* diffs, min(diffs), the raise, diffs.index(minimum): the first level at the
\* least distance from the desired downsampling
get_level_and_downsampling(level_downsamples, desired, threshold) ==
    LET diffs == [i \in 1 .. Len(level_downsamples) |->
                     Abs(desired - level_downsamples[i])]
        minimum == Min({diffs[i] : i \in 1 .. Len(level_downsamples)})
        index == Min({i \in 1 .. Len(level_downsamples) : diffs[i] = minimum})
    IN  IF minimum > threshold
        THEN [raised |-> TRUE, level |-> None, downsampling |-> None]
        ELSE [raised |-> FALSE, level |-> index - 1,
              downsampling |-> level_downsamples[index]]

----------------------------------------------------------------------------
(* Slide_Sampler.level_converter, round=1 *)

\* the same, rounding to the nearest integer instead of flooring
level_converter_nearest(level_downsamples, x, lvl_in, lvl_out) ==
    (2 * x * level_downsamples[lvl_in + 1] + level_downsamples[lvl_out + 1])
        \div (2 * level_downsamples[lvl_out + 1])

\* np.floor(x * downsample[lvl_in] / downsample[lvl_out]).astype(np.uint32),
\* for x >= 0.  The cast to 32 bits changes nothing below 2^32, and the
\* coordinates of the slides modelled here stay far below it.
level_converter(level_downsamples, x, lvl_in, lvl_out) ==
    (x * level_downsamples[lvl_in + 1]) \div level_downsamples[lvl_out + 1]

----------------------------------------------------------------------------
(* Slide_Sampler.__init__ *)

\* the same, with the window as wide as the slide
available_whole(extent, ds, sz) == extent

\* int(dimension - downsampling * size)
available(extent, ds, sz) == IntTrunc(extent * Milli - ds * sz, Milli)

NoInfo == [w |-> None, h |-> None, parent |-> "", level |-> None,
           size |-> None, class |-> None]

Constructed(slide, desired, sz) ==
    LET r == get_level_and_downsampling(slide.level_downsamples, desired, 100)
    IN  /\ ~r.raised
        /\ wsi = slide
        /\ desired_downsampling = desired
        /\ size = sz
        /\ level = r.level
        /\ downsampling = r.downsampling
        /\ width_available = available(slide.dimensions[1], r.downsampling, sz)
        /\ height_available = available(slide.dimensions[2], r.downsampling, sz)
        /\ background_mask = Unset
        /\ background_mask_level = None
        /\ background_mask_downsampling = None
        /\ size_at_background_level = None
        /\ annotation_mask = Unset
        /\ annotation_mask_level = None
        /\ annotation_mask_downsampling = None
        /\ info = NoInfo
        /\ frame = <<>>
        /\ err = "none"
        /\ ret = <<>>

Init ==
    /\ \E slide \in Slides, desired \in DesiredDownsamplings, sz \in 1 .. MaxSize :
          Constructed(slide, desired, sz)
    /\ call = <<"__init__", None>>
    /\ pc = "idle"

----------------------------------------------------------------------------
(* Background masks *)

RECURSIVE SumOver(_, _)
SumOver(f, S) ==
    IF S = {} THEN 0
    ELSE LET e == CHOOSE e \in S : TRUE IN f[e] + SumOver(f, S \ {e})

\* every binary array of the level's dimensions
BitGrids(dims) == [1 .. dims[2] -> [1 .. dims[1] -> {0, 1}]]

\* the pickled list [background_mask, background_mask_level,
\* background_mask_downsampling, size_at_background_level] of a session of
\* the same slide and patch size
Bundles ==
    UNION { { [mask |-> m, level |-> l,
               downsampling |-> wsi.level_downsamples[l + 1],
               size_at_level |->
                   level_converter(wsi.level_downsamples, size, level, l)] :
                m \in BitGrids(LevelDimensions(wsi, l)) } :
            l \in { k \in Levels(wsi) :
                      LevelDimensions(wsi, k)[1] * LevelDimensions(wsi, k)[2]
                          <= MaxMaskCells } }

\* np.sum(mask[i:i + s, j:j + s]): a slice is clipped to the array
slice_sum(mask, i, j, s) ==
    LET rows == { r \in 1 .. Len(mask) : i + 1 <= r /\ r <= i + s }
        cells == { <<r, c>> \in rows \X (1 .. (IF Len(mask) = 0 THEN 0 ELSE Len(mask[1]))) :
                     j + 1 <= c /\ c <= j + s }
    IN  SumOver([rc \in cells |-> mask[rc[1]][rc[2]]], cells)

\* the same, with the threshold at one half
covered_half(mask, i, j, s) ==
    s # 0 /\ 2 * slice_sum(mask, i, j, s) > s * s

\* np.sum(background_mask_patch) / (size_at_background_level ** 2) > 0.9;
\* 0.0 / 0 is nan, and nan > 0.9 is False
covered(mask, i, j, s) ==
    s # 0 /\ 10 * slice_sum(mask, i, j, s) > 9 * s * s

----------------------------------------------------------------------------
(* Annotation masks *)

\* The annotation masks of the session's slide: same extent, their own
\* pyramid, the columns left of `columns` annotated, and the annotated pixels
\* stored as `encoding` (1, or 255 for a byte-encoded mask).
AnnotationImage(f, c, e) ==
    [file |-> "mask.tif", dimensions |-> wsi.dimensions,
     level_downsamples |-> f, columns |-> c, encoding |-> e]

\* masks of the slide's own geometry with nothing, a part and everything
\* annotated, and fully annotated masks of three other pyramids
AnnotationMasks ==
    { AnnotationImage(<<1000, 2000>>, 0, 1) }
    \cup { AnnotationImage(<<1000, 2000>>, c, e) :
               c \in {2, wsi.dimensions[1]}, e \in {1, 255} }
    \cup { AnnotationImage(f, wsi.dimensions[1], 255) :
               f \in { <<1000, 2001>>, <<1000, 2050>>, <<1000, 8000>> } }

\* whether the pixel (dx, dy) of the size x size region read at level l from
\* the level-0 origin (w, h) is annotated; outside the image it reads as 0
annotated(image, l, w, h, dx, dy) ==
    LET x0 == (w * Milli + dx * image.level_downsamples[l + 1]) \div Milli
        y0 == (h * Milli + dy * image.level_downsamples[l + 1]) \div Milli
    IN  x0 < image.dimensions[1] /\ y0 < image.dimensions[2] /\ x0 < image.columns

\* np.asarray(annotation_mask.read_region((w, h), level, (size, size)).convert('L'))
read_annotation(image, l, w, h, sz) ==
    [p \in (0 .. sz - 1) \X (0 .. sz - 1) |->
        IF annotated(image, l, w, h, p[1], p[2]) THEN image.encoding ELSE 0]

\* the same, dividing by 255 whatever the values are
force_patch_float01_always(x) == [values |-> x, over |-> 255]

\* force_patch_float01: the array values / over, with over = 255 when
\* x.max() > 1.0 and 1 otherwise
force_patch_float01(x) ==
    [values |-> x,
     over |-> IF \E p \in DOMAIN x : x[p] > 1 THEN 255 ELSE 1]

\* the class get_classed_patch gives the normalised annotation patch, or None
\* when the patch is discarded: the two tests of the loop body
classify(patch, area, patch_class) ==
    LET total == SumOver(patch.values, DOMAIN patch.values)
        c0 == 10 * total < patch.over * area /\ patch_class \in {None, 0}
        c1 == 10 * total > 9 * patch.over * area /\ patch_class \in {None, 1}
    IN  IF c1 THEN 1 ELSE IF c0 THEN 0 ELSE None

----------------------------------------------------------------------------
(* The operations of a session.  A call that cannot loop is one step; the   *)
(* samplers take one step per turn of their rejection loops.  `info` and    *)
(* `frame` are the locals and the return value of the sampler call made     *)
(* last; every new call starts without them.                                *)

\* the same, binding the resolved level to the sampling level
generate_background_mask_level(desired, threshold) ==
    LET r == get_level_and_downsampling(wsi.level_downsamples, desired, threshold)
    IN  /\ pc = "idle"
        /\ call' = <<"generate_background_mask", None>>
        /\ IF r.raised
           THEN /\ err' = "LevelNotFound"
                /\ UNCHANGED <<level, downsampling>>
           ELSE /\ level' = r.level
                /\ downsampling' = r.downsampling
                /\ err' = "NameError"
        /\ info' = NoInfo
        /\ frame' = <<>>
        /\ UNCHANGED <<wsi, desired_downsampling, size, width_available,
                       height_available, background, annotation, pc, ret>>

generate_background_mask(desired, threshold) ==
    LET r == get_level_and_downsampling(wsi.level_downsamples, desired, threshold)
    IN  /\ pc = "idle"
        /\ call' = <<"generate_background_mask", None>>
        /\ IF r.raised
           THEN /\ err' = "LevelNotFound"
                /\ UNCHANGED <<background_mask_level, background_mask_downsampling>>
           ELSE \* line 86 reads `mask`, a name bound nowhere in the method or
                \* the module: NameError, after the level and the downsampling
                \* were assigned
                /\ background_mask_level' = r.level
                /\ background_mask_downsampling' = r.downsampling
                /\ err' = "NameError"
        /\ info' = NoInfo
        /\ frame' = <<>>
        /\ UNCHANGED <<session, background_mask, size_at_background_level,
                       annotation, pc, ret>>

pickle_load_background_mask(bundle) ==
    /\ pc = "idle"
    /\ call' = <<"pickle_load_background_mask", None>>
    /\ background_mask' = <<bundle.mask>>
    /\ background_mask_level' = bundle.level
    /\ background_mask_downsampling' = bundle.downsampling
    /\ size_at_background_level' = bundle.size_at_level
    /\ err' = "none"
    /\ info' = NoInfo
    /\ frame' = <<>>
    /\ UNCHANGED <<session, annotation, pc, ret>>

\* the same, refusing a difference equal to eps
inconsistent_ge(mask_downsampling, slide_downsampling) ==
    Abs(mask_downsampling - slide_downsampling) >= 1

\* abs(self.annotation_mask_downsampling - self.downsampling) > eps, eps = 1e-3
inconsistent(mask_downsampling, slide_downsampling) ==
    Abs(mask_downsampling - slide_downsampling) > 1

add_annotation_mask(image) ==
    LET r == get_level_and_downsampling(image.level_downsamples,
                                        desired_downsampling, 100)
    IN  /\ pc = "idle"
        /\ call' = <<"add_annotation_mask", None>>
        /\ annotation_mask' = <<image>>
        /\ IF r.raised
           THEN /\ err' = "LevelNotFound"
                /\ UNCHANGED <<annotation_mask_level, annotation_mask_downsampling>>
           ELSE /\ annotation_mask_level' = r.level
                /\ annotation_mask_downsampling' = r.downsampling
                /\ err' = IF inconsistent(r.downsampling, downsampling)
                          THEN "InconsistentGeometry" ELSE "none"
        /\ info' = NoInfo
        /\ frame' = <<>>
        /\ UNCHANGED <<session, background, pc, ret>>

\* the same, running the loop once more
more_patches_le(done, number_patches) == done <= number_patches

\* for i in range(number_patches): whether another turn follows `done` turns
more_patches(done, number_patches) == done < number_patches

call_get_patch ==
    /\ pc = "idle"
    /\ call' = <<"get_patch", None>>
    /\ pc' = "get_patch"
    /\ info' = NoInfo
    /\ frame' = <<>>
    /\ err' = "none"
    /\ UNCHANGED <<session, background, annotation, ret>>

call_get_classed_patch(patch_class) ==
    /\ pc = "idle"
    /\ call' = <<"get_classed_patch", patch_class>>
    /\ pc' = "get_patch"
    /\ info' = NoInfo
    /\ frame' = <<>>
    /\ err' = "none"
    /\ UNCHANGED <<session, background, annotation, ret>>

\* range(0) is empty: the frame is returned at once
call_get_basic_patchframe(number_patches) ==
    /\ pc = "idle"
    /\ call' = <<"get_basic_patchframe", number_patches>>
    /\ pc' = IF more_patches(0, number_patches) THEN "get_patch" ELSE "idle"
    /\ info' = NoInfo
    /\ frame' = <<>>
    /\ err' = "none"
    /\ UNCHANGED <<session, background, annotation, ret>>

\* np.random.choice(n) raises ValueError unless n > 0
WindowEmpty == width_available <= 0 \/ height_available <= 0

BackgroundMissing == background_mask = Unset \/ background_mask_level = None

\* the same, indexing the mask with the level-0 origin itself
accepts_unconverted(w, h) ==
    covered(background_mask[1], h, w, size_at_background_level)

\* the footprint test of the origin (w, h): lines 159-163
accepts(w, h) ==
    covered(background_mask[1],
            level_converter(wsi.level_downsamples, h, 0, background_mask_level),
            level_converter(wsi.level_downsamples, w, 0, background_mask_level),
            size_at_background_level)

\* The rest of one turn of get_classed_patch's loop, once get_patch has
\* returned `candidate`; in get_basic_patchframe, followed by
\* frame.append(info).  A discarded candidate changes nothing but the locals.
get_classed_patch_test(candidate) ==
    IF annotation_mask = Unset \/ annotation_mask_level = None
    THEN /\ err' = "AttributeError"
         /\ pc' = "idle"
         /\ UNCHANGED <<info, frame>>
    ELSE LET patch == force_patch_float01(
                          read_annotation(annotation_mask[1], annotation_mask_level,
                                          candidate.w, candidate.h, size))
             class == classify(patch, size * size,
                               IF call[1] = "get_classed_patch" THEN call[2] ELSE None)
             classed == [candidate EXCEPT !.class = class]
         IN  /\ err' = err
             /\ IF class = None
                THEN UNCHANGED <<pc, info, frame>>
                ELSE IF call[1] = "get_classed_patch"
                THEN /\ pc' = "idle"
                     /\ info' = classed
                     /\ frame' = frame
                ELSE /\ frame' = Append(frame, classed)
                     /\ info' = NoInfo
                     /\ pc' = IF more_patches(Len(frame) + 1, call[2])
                              THEN "get_patch" ELSE "idle"

\* w = np.random.choice(self.width_available) and h =
\* np.random.choice(self.height_available): the draws a turn can make
drawn(w, h) ==
    /\ pc = "get_patch"
    /\ ~WindowEmpty
    /\ w \in 0 .. (width_available - 1)
    /\ h \in 0 .. (height_available - 1)

\* One turn of get_patch's loop with the draw (w, h) and, when the draw is
\* accepted, the return to the caller: the client, or the loop of
\* get_classed_patch.  A rejected draw changes nothing but the locals, which
\* the next turn overwrites.
get_patch_draw(w, h) ==
    LET accepted == [w |-> w, h |-> h, parent |-> wsi.file, level |-> level,
                     size |-> size, class |-> None]
    IN  /\ drawn(w, h)
        /\ ~BackgroundMissing
        /\ IF ~accepts(w, h)
           THEN UNCHANGED <<info, pc, frame, err>>
           ELSE IF call[1] = "get_patch"
           THEN /\ info' = accepted
                /\ pc' = "idle"
                /\ UNCHANGED <<frame, err>>
           ELSE get_classed_patch_test(accepted)
        /\ UNCHANGED <<session, background, annotation, call, ret>>

\* the exceptions of the loop's first turn
get_patch_raise ==
    /\ pc = "get_patch"
    /\ WindowEmpty \/ BackgroundMissing
    /\ err' = IF WindowEmpty THEN "ValueError" ELSE "AttributeError"
    /\ pc' = "idle"
    /\ UNCHANGED <<session, background, annotation, call, info, frame, ret>>

Next ==
    \/ \E d \in DesiredDownsamplings, t \in Thresholds : generate_background_mask(d, t)
    \/ \E b \in Bundles : pickle_load_background_mask(b)
    \/ \E a \in AnnotationMasks : add_annotation_mask(a)
    \/ call_get_patch
    \/ \E c \in {None, 0, 1} : call_get_classed_patch(c)
    \/ \E n \in 0 .. MaxPatches : call_get_basic_patchframe(n)
    \/ \E w \in 0 .. wsi.dimensions[1], h \in 0 .. wsi.dimensions[2] : get_patch_draw(w, h)
    \/ get_patch_raise

Spec == Init /\ [][Next]_vars

----------------------------------------------------------------------------
(* Direct calls of the two helpers, on pyramids of every shape *)

\* the longest pyramid
MaxLevels == 3

\* the largest coordinate converted
MaxCoord == 12

Factors == {1000, 2000, 2001, 4000}

PureThresholds == {0, 100, 1000}

\* every non-empty list of factors, in any order and with repetitions
FactorLists == UNION { [1 .. n -> Factors] : n \in 1 .. MaxLevels }

\* the pyramids of a slide: level 0 is the full resolution, the factors grow
Pyramids ==
    { f \in FactorLists :
        f[1] = 1000 /\ \A i \in 1 .. (Len(f) - 1) : f[i] < f[i + 1] }

PureSlides ==
    { [file |-> "p.svs", dimensions |-> <<MaxCoord, MaxCoord>>,
       level_downsamples |-> f] : f \in Pyramids }

\* a session, and the helper call its client is about to make
InitPure ==
    /\ \E slide \in PureSlides : Constructed(slide, 1000, 1)
    /\ pc = "helper"
    /\ \/ \E f \in FactorLists, d \in DesiredDownsamplings, t \in PureThresholds :
             call = <<"get_level_and_downsampling", <<f, d, t>>>>
       \/ \E x \in 0 .. MaxCoord, a \in Levels(wsi), b \in Levels(wsi) :
             call = <<"level_converter", <<x, a, b>>>>

\* sampler.get_level_and_downsampling(image, desired, threshold)
call_get_level_and_downsampling ==
    /\ pc = "helper"
    /\ call[1] = "get_level_and_downsampling"
    /\ LET r == get_level_and_downsampling(call[2][1], call[2][2], call[2][3])
       IN  /\ err' = IF r.raised THEN "LevelNotFound" ELSE "none"
           /\ ret' = IF r.raised THEN <<>> ELSE <<r.level, r.downsampling>>
    /\ pc' = "idle"
    /\ UNCHANGED <<session, background, annotation, call, info, frame>>

\* y = sampler.level_converter(x, a, b) and then sampler.level_converter(y, b, a)
call_level_converter ==
    /\ pc = "helper"
    /\ call[1] = "level_converter"
    /\ LET y == level_converter(wsi.level_downsamples, call[2][1], call[2][2], call[2][3])
           z == level_converter(wsi.level_downsamples, y, call[2][3], call[2][2])
       IN  ret' = <<y, z>>
    /\ pc' = "idle"
    /\ UNCHANGED <<session, background, annotation, call, info, frame, err>>

NextPure ==
    \/ call_get_level_and_downsampling
    \/ call_level_converter

SpecPure == InitPure /\ [][NextPure]_vars

----------------------------------------------------------------------------
(* The level resolver and the coordinate converter *)

ResolverReturned == pc = "idle" /\ call[1] = "get_level_and_downsampling"

\* the least distance between the desired downsampling d and a factor of f
LeastDistance(f, d) ==
    CHOOSE m \in { Abs(d - f[k]) : k \in DOMAIN f } :
        \A k \in DOMAIN f : m <= Abs(d - f[k])

\* C1: for every non-empty list F of factors, desired downsampling d and
\* tolerance t, get_level_and_downsampling raises the level-not-found
\* exception exactly when the least |d - F[k]| is strictly greater than t,
\* and otherwise returns (i, F[i]) with |d - F[i]| that least distance; a
\* least distance equal to t succeeds.
C1_NearestLevelWithinTolerance ==
    ResolverReturned =>
        LET f == call[2][1]
            d == call[2][2]
            t == call[2][3]
        IN  /\ err = "LevelNotFound" <=> LeastDistance(f, d) > t
            /\ err # "LevelNotFound" =>
                  /\ err = "none"
                  /\ ret[1] \in 0 .. (Len(f) - 1)
                  /\ ret[2] = f[ret[1] + 1]
                  /\ \A k \in DOMAIN f : Abs(d - ret[2]) <= Abs(d - f[k])

\* a call that succeeds with the least distance exactly at a positive
\* tolerance, on a level other than the first
C1_Witness ==
    /\ ResolverReturned
    /\ err = "none"
    /\ ret[1] >= 1
    /\ call[2][3] > 0
    /\ Abs(call[2][2] - ret[2]) = call[2][3]

ConverterReturned == pc = "idle" /\ call[1] = "level_converter"

\* C5, as claimed: converting x from level a to level b and back, flooring
\* both times, yields a value within one unit of x, for every pair of levels.
C5_RoundTripWithinOne ==
    ConverterReturned => Abs(call[2][1] - ret[2]) <= 1

\* C5, amended: the round trip never exceeds x; it is within one unit of x
\* when a is the coarser level (or a = b); from a finer level a to a coarser
\* level b and back it loses less than 1 + F[b]/F[a] units.
C5_RoundTripLoss ==
    ConverterReturned =>
        LET x == call[2][1]
            fa == wsi.level_downsamples[call[2][2] + 1]
            fb == wsi.level_downsamples[call[2][3] + 1]
            z == ret[2]
        IN  /\ z <= x
            /\ fa >= fb => x - z <= 1
            /\ (x - z) * fa < fa + fb

\* a round trip through a coarser level that loses more than one unit, on a
\* pyramid whose factors are not multiples of one another
C5_Witness ==
    /\ ConverterReturned
    /\ wsi.level_downsamples[call[2][2] + 1] < wsi.level_downsamples[call[2][3] + 1]
    /\ call[2][1] - ret[2] >= 2
    /\ \E k \in DOMAIN wsi.level_downsamples : wsi.level_downsamples[k] = 2001

----------------------------------------------------------------------------
(* The rejection sampler *)

\* the number of tissue pixels of the background mask in the s x s footprint
\* whose first row and column are the origin (w, h) converted to the level
\* of the mask
TissueInFootprint(w, h) ==
    LET mask == background_mask[1]
        i == level_converter(wsi.level_downsamples, h, 0, background_mask_level)
        j == level_converter(wsi.level_downsamples, w, 0, background_mask_level)
        s == size_at_background_level
        pixels == UNION { { <<r, c>> : c \in DOMAIN mask[r] } : r \in DOMAIN mask }
    IN  Cardinality({ rc \in pixels :
                        /\ i < rc[1] /\ rc[1] <= i + s
                        /\ j < rc[2] /\ rc[2] <= j + s
                        /\ mask[rc[1]][rc[2]] = 1 })

\* coverage fraction > 0.9
WellCovered(w, h) ==
    /\ size_at_background_level > 0
    /\ 10 * TissueInFootprint(w, h) > 9 * size_at_background_level * size_at_background_level

GetPatchReturned == pc = "idle" /\ call[1] = "get_patch" /\ err = "none"

\* C2: whenever get_patch returns an origin (w, h), in its own right or to
\* get_classed_patch, the background-mask values over the footprint at the
\* converted indices sum to strictly more than 0.9 of the footprint area, and
\* the info returned carries that origin.
C2_ReturnedPatchIsTissue ==
    /\ info.w # None => WellCovered(info.w, info.h)
    /\ GetPatchReturned => info.w # None /\ info.h # None /\ info.class = None

\* get_patch returns an origin of a mask that has background in it
C2_Witness ==
    /\ GetPatchReturned
    /\ \E r \in DOMAIN background_mask[1] :
          \E c \in DOMAIN background_mask[1][r] : background_mask[1][r][c] = 0

----------------------------------------------------------------------------
(* The classed rejection sampler *)

\* the number of annotated pixels of the size x size region of the
\* annotation mask at the origin (w, h)
AnnotatedInPatch(w, h) ==
    Cardinality({ p \in (0 .. size - 1) \X (0 .. size - 1) :
                    annotated(annotation_mask[1], annotation_mask_level,
                              w, h, p[1], p[2]) })

\* the class of a record agrees with the annotation at its origin
Pure(record) ==
    /\ record.class \in {0, 1}
    /\ record.class = 0 => 10 * AnnotatedInPatch(record.w, record.h) < size * size
    /\ record.class = 1 => 10 * AnnotatedInPatch(record.w, record.h) > 9 * size * size

ClassedReturned == pc = "idle" /\ call[1] = "get_classed_patch" /\ err = "none"

\* C3: get_classed_patch never returns class 0 with an annotated fraction
\* >= 0.1 at the returned origin, nor class 1 with a fraction <= 0.9, and a
\* requested class 0 or 1 is the class returned, whether the annotation mask
\* stores its pixels in [0, 1] or as bytes.
C3_ReturnedClassIsPure ==
    ClassedReturned =>
        /\ Pure(info)
        /\ call[2] # None => info.class = call[2]

\* class 1 was requested and returned on a byte-encoded mask that is only
\* partly annotated
C3_Witness ==
    /\ ClassedReturned
    /\ call[2] = 1
    /\ annotation_mask[1].encoding = 255
    /\ annotation_mask[1].columns < wsi.dimensions[1]

----------------------------------------------------------------------------
(* Attaching an annotation mask *)

\* the annotation mask's downsampling resolves and differs from the slide's
\* by more than 1e-3
Mismatched(image) ==
    LET r == get_level_and_downsampling(image.level_downsamples,
                                        desired_downsampling, 100)
    IN  ~r.raised /\ Abs(r.downsampling - downsampling) > 1

\* C4: add_annotation_mask of a mask whose resolved downsampling differs
\* from the slide's by more than 1e-3 raises the inconsistent-geometry error
\* and leaves every field of the session as it was before the call, the
\* annotation handle and the annotation level and downsampling included.
C4_FailedAttachChangesNothing ==
    [][\A image \in AnnotationMasks :
          (add_annotation_mask(image) /\ Mismatched(image)) =>
              /\ err' = "InconsistentGeometry"
              /\ UNCHANGED <<session, background, annotation>>]_vars

----------------------------------------------------------------------------
(* The patchframe *)

FrameReturned == pc = "idle" /\ call[1] = "get_basic_patchframe" /\ err = "none"

AllTissue ==
    \A r \in DOMAIN background_mask[1] :
        \A c \in DOMAIN background_mask[1][r] : background_mask[1][r][c] = 1

\* C6: get_basic_patchframe(N), when it returns, returns exactly N records;
\* the frame only ever grows at its end, by the record of a candidate that
\* get_classed_patch(None) accepts; every record has class 0 or 1,
\* and class 0 when the background mask is all tissue and the annotation mask
\* all zero.
C6_FrameOfNClassedRecords ==
    /\ [](FrameReturned =>
            /\ Len(frame) = call[2]
            /\ \A k \in DOMAIN frame :
                  /\ Pure(frame[k])
                  /\ WellCovered(frame[k].w, frame[k].h)
                  /\ frame[k].parent = wsi.file
                  /\ frame[k].level = level
                  /\ frame[k].size = size
                  /\ (AllTissue /\ annotation_mask[1].columns = 0) => frame[k].class = 0)
    /\ [][frame' # frame /\ frame' # <<>> =>
            /\ pc = "get_patch"
            /\ Len(frame') = Len(frame) + 1
            /\ SubSeq(frame', 1, Len(frame)) = frame
            /\ Pure(frame'[Len(frame')])
            /\ WellCovered(frame'[Len(frame')].w, frame'[Len(frame')].h)]_vars

\* two records were returned from an all-tissue slide with an all-zero
\* annotation mask
C6_Witness ==
    /\ FrameReturned
    /\ Len(frame) >= 2
    /\ AllTissue
    /\ annotation_mask[1].columns = 0

----------------------------------------------------------------------------
(* The valid-origin window *)

\* C7: every origin (w, h) that get_patch can draw has 0 <= w <
\* width_available and 0 <= h < height_available, and the patch read there
\* at the sampling level ends inside the slide: w + downsampling * size <=
\* width and h + downsampling * size <= height at level 0.
C7_DrawnPatchInsideSlide ==
    \A w \in -1 .. (wsi.dimensions[1] + 1), h \in -1 .. (wsi.dimensions[2] + 1) :
        drawn(w, h) =>
            /\ 0 <= w /\ w < width_available
            /\ 0 <= h /\ h < height_available
            /\ w * Milli + downsampling * size <= wsi.dimensions[1] * Milli
            /\ h * Milli + downsampling * size <= wsi.dimensions[2] * Milli

\* the far corner of the window can be drawn at a downsampling that is not a
\* whole number
C7_Witness ==
    /\ downsampling = 2001
    /\ drawn(width_available - 1, height_available - 1)

----------------------------------------------------------------------------
(* What the operations leave alone *)

SamplingStep ==
    \/ pc # "idle"
    \/ call'[1] \in {"get_patch", "get_classed_patch", "get_basic_patchframe"}

\* C8: after the constructor, no operation changes the slide's level and
\* downsampling, the patch size or the valid-origin window, and the sampling
\* operations change neither the background mask nor its footprint size.
C8_SetupIsFrozen ==
    [][/\ UNCHANGED <<wsi, desired_downsampling, size, level, downsampling,
                      width_available, height_available>>
       /\ SamplingStep => UNCHANGED <<background_mask, size_at_background_level>>]_vars

\* a patchframe was returned after a background level was resolved, a mask
\* loaded and an annotation attached
C8_Witness ==
    /\ FrameReturned
    /\ Len(frame) >= 1
    /\ background_mask_level # level

----------------------------------------------------------------------------
(* generate_background_mask *)

\* C10: when the requested downsampling resolves to a level within the
\* tolerance, generate_background_mask completes without error and leaves a
\* binary mask, the resolved level and downsampling, and the footprint size
\* floor(size * downsampling(sampling level) / downsampling(background
\* level)); when it does not resolve, it fails with the level-not-found error.
C10_GenerateBuildsMask ==
    [][\A d \in DesiredDownsamplings, t \in Thresholds :
          generate_background_mask(d, t) =>
              LET r == get_level_and_downsampling(wsi.level_downsamples, d, t)
              IN  IF r.raised
                  THEN err' = "LevelNotFound"
                  ELSE /\ err' = "none"
                       /\ background_mask' # Unset
                       /\ background_mask_level' = r.level
                       /\ background_mask_downsampling' = r.downsampling
                       /\ size_at_background_level' =
                              (size * downsampling) \div r.downsampling]_vars

----------------------------------------------------------------------------
(* The rejection loop of get_patch *)

\* the operations that get_patch depends on, and get_patch
NextGetPatch ==
    \/ \E d \in DesiredDownsamplings, t \in Thresholds : generate_background_mask(d, t)
    \/ \E b \in Bundles : pickle_load_background_mask(b)
    \/ call_get_patch
    \/ \E w \in 0 .. wsi.dimensions[1], h \in 0 .. wsi.dimensions[2] : get_patch_draw(w, h)
    \/ get_patch_raise

\* a draw that is accepted: the only turn of the loop that changes the state
AcceptedDraw ==
    \E w \in 0 .. wsi.dimensions[1], h \in 0 .. wsi.dimensions[2] : get_patch_draw(w, h)

\* Each origin of the window is drawn with the same positive probability at
\* every turn, so a loop that keeps turning draws each of them again and
\* again: an accepted draw that stays possible is eventually made.
SpecGetPatch == Init /\ [][NextGetPatch]_vars /\ WF_vars(AcceptedDraw)

InLoop ==
    /\ pc = "get_patch"
    /\ call[1] = "get_patch"
    /\ background_mask # Unset
    /\ background_mask_level # None

NoOriginCovered ==
    \A w \in 0 .. (width_available - 1), h \in 0 .. (height_available - 1) :
        ~WellCovered(w, h)

\* C9, as claimed: when no origin of the window has coverage above 0.9 (a
\* footprint of size 0 included), get_patch neither returns nor raises; when
\* some origin has, it eventually returns.
C9_LoopHasNoExit ==
    /\ [][(InLoop /\ NoOriginCovered) => (pc' = "get_patch" /\ err' = "none")]_vars
    /\ (InLoop /\ ~NoOriginCovered) ~> (pc # "get_patch")

\* C9, amended: the same when the window is not empty; with an empty window
\* (width_available <= 0 or height_available <= 0) the first draw raises.
C9_LoopExitsOnlyByAccepting ==
    /\ [][(InLoop /\ ~WindowEmpty /\ NoOriginCovered) =>
             (pc' = "get_patch" /\ err' = "none")]_vars
    /\ [][(InLoop /\ WindowEmpty) => (pc' = "idle" /\ err' = "ValueError")]_vars
    /\ (InLoop /\ ~WindowEmpty /\ ~NoOriginCovered) ~> (pc # "get_patch")

\* the loop turns on a mask that has tissue, with a footprint of positive
\* size that no origin of the window covers well enough
C9_Witness ==
    /\ InLoop
    /\ ~WindowEmpty
    /\ NoOriginCovered
    /\ size_at_background_level > 0
    /\ \E r \in DOMAIN background_mask[1] :
          \E c \in DOMAIN background_mask[1][r] : background_mask[1][r][c] = 1

====
